---- MODULE Spec2Model ----
(***************************************************************************)
(* A model of the chessOS backend skeleton:                                *)
(*   backend/app/core/config.py            Settings, settings              *)
(*   backend/app/services/stockfish/engine.py   EngineStatus,              *)
(*                                          get_engine_status              *)
(*   backend/app/api/v1/routes/play_bot.py  play_bot_status                *)
(*   backend/app/main.py                    the route table                *)
(*                                                                         *)
(* The process environment (os.environ) and the file system are the        *)
(* program's surroundings: the environment may be rewritten while the      *)
(* process runs, the file system decides whether an engine binary exists   *)
(* at a path.  The program itself reads the environment once, when         *)
(* config.py is imported, and starts no subprocess anywhere.               *)
(***************************************************************************)
EXTENDS Naturals, Sequences, FiniteSets, TLC

\* Bound of the model: how many results of get_engine_status are recorded.
MaxCalls == 2

\* Python's  str | None : None is the empty tuple, a string s is <<s>>.
None == <<>>
Some(s) == <<s>>

\* The environment variable config.py reads.
STOCKFISH_PATH == "STOCKFISH_PATH"

\* The names the environment may bind.
EnvNames == {STOCKFISH_PATH}

\* The values STOCKFISH_PATH takes in the model: the empty string, the path
\* of an installed engine, a path nothing may be installed at.
Paths == {"", "/usr/games/stockfish", "/opt/missing/stockfish"}

\* The request URLs of the model.
Urls == {"/api/v1/play-bot/status", "/api/v1/play-bot", "/status"}

VARIABLES
  environ,          \* os.environ: a function from the bound names to strings
  binaries,         \* file system: the paths at which an engine binary runs
  Settings_default, \* the default of Settings.stockfish_path (class body)
  settings,         \* the module-level instance  settings = Settings()
  statuses,         \* the EngineStatus values get_engine_status has returned
  raised,           \* the exception the last operation raised, or "none"
  response,         \* the last HTTP response of the application
  spawned           \* the paths the process has started a subprocess for

vars == <<environ, binaries, Settings_default, settings, statuses, raised,
          response, spawned>>

\* os.getenv(key): the value bound to key, None when key is unbound.
os_getenv(key) ==
  IF key \in DOMAIN environ THEN Some(environ[key]) ELSE None

\* Python's bool(x) for x: str | None -- None is falsy, a string is truthy
\* exactly when its length is not zero.
bool(x) ==
  IF x = None THEN FALSE ELSE Len(x[1]) > 0

\* Settings(): a frozen dataclass instance with the field's default.
Settings == [stockfish_path |-> Settings_default]

\* EngineStatus(ready, path)
EngineStatus(ready, path) == [ready |-> ready, path |-> path]

\* get_engine_status(), with the flag taken from "is not None".
get_engine_status_notnone ==
  EngineStatus(settings.stockfish_path # None, settings.stockfish_path)

\* get_engine_status(), with the flag taken from a successful start of the
\* binary at the path.
get_engine_status_handshake ==
  EngineStatus(bool(settings.stockfish_path)
                 /\ settings.stockfish_path[1] \in binaries,
               settings.stockfish_path)

\* get_engine_status(), reading the environment at the call.
get_engine_status_getenv ==
  EngineStatus(bool(os_getenv(STOCKFISH_PATH)), os_getenv(STOCKFISH_PATH))

\* get_engine_status()
get_engine_status ==
  EngineStatus(bool(settings.stockfish_path), settings.stockfish_path)

\* The environments: every binding of a subset of the names.
Environments ==
  UNION {[names -> Paths] : names \in SUBSET EnvNames}

\* After  import app.main : config.py has evaluated os.getenv once, in the
\* class body, and built the instance from that default.
Init ==
  /\ environ \in Environments
  /\ binaries \in SUBSET {"/usr/games/stockfish"}
  /\ Settings_default = os_getenv(STOCKFISH_PATH)
  /\ settings = Settings
  /\ statuses = <<>>
  /\ raised = "none"
  /\ response = [code |-> 0, body |-> "none"]
  /\ spawned = {}

\* The surroundings bind STOCKFISH_PATH to v (os.environ[...] = v).
SetEnv(v) ==
  /\ environ' = [n \in EnvNames |-> v]
  /\ UNCHANGED <<binaries, Settings_default, settings, statuses, raised,
                 response, spawned>>

\* The surroundings unbind STOCKFISH_PATH (del os.environ[...]).
UnsetEnv ==
  /\ environ' = [n \in {} |-> ""]
  /\ UNCHANGED <<binaries, Settings_default, settings, statuses, raised,
                 response, spawned>>

\* A call of get_engine_status(); the caller keeps the result.
CallGetEngineStatus ==
  /\ Len(statuses) < MaxCalls
  /\ statuses' = Append(statuses, get_engine_status)
  /\ raised' = "none"
  /\ UNCHANGED <<environ, binaries, Settings_default, settings, response,
                 spawned>>

\* settings.stockfish_path = v : the dataclass is frozen, the assignment
\* raises and the instance is as before.
AssignStockfishPath(v) ==
  /\ raised' = "FrozenInstanceError"
  /\ UNCHANGED <<environ, binaries, Settings_default, settings, statuses,
                 response, spawned>>

\* GET url: the application answers /api/v1/play-bot/status from
\* play_bot_status, whatever the engine's status is; no other route of the
\* play-bot router exists.
Request(url) ==
  /\ response' = IF url = "/api/v1/play-bot/status"
                   THEN [code |-> 200, body |-> "ready"]
                   ELSE [code |-> 404, body |-> "Not Found"]
  /\ raised' = "none"
  /\ UNCHANGED <<environ, binaries, Settings_default, settings, statuses,
                 spawned>>

Next ==
  \/ \E v \in Paths : SetEnv(v)
  \/ UnsetEnv
  \/ CallGetEngineStatus
  \/ \E v \in {None} \cup {Some(p) : p \in Paths} : AssignStockfishPath(v)
  \/ \E url \in Urls : Request(url)

Spec == Init /\ [][Next]_vars

TypeOK ==
  /\ environ \in Environments
  /\ settings \in [stockfish_path : {None} \cup {Some(p) : p \in Paths}]
  /\ Len(statuses) <= MaxCalls

\* The configured path is a string of at least one character.
NonEmptyPath(x) == x # None /\ x[1] # ""

\* C8: get_engine_status reports ready = true exactly when the configured
\* stockfish_path is a non-empty string (false for None and for ""), returns
\* path equal to the configured value, and returns the same status on every
\* call: the configured value is the one read at import, whatever the
\* environment has become since.
C8_StatusIsPathPresence ==
  /\ settings.stockfish_path = Settings_default
  /\ \A i \in 1..Len(statuses) :
       /\ statuses[i].ready = NonEmptyPath(settings.stockfish_path)
       /\ statuses[i].path = settings.stockfish_path
       /\ statuses[i] = statuses[1]

\* C8 witness: two calls have returned for a path configured as the empty
\* string, the flag is false, and the environment no longer holds the value
\* read at import.
C8_Witness ==
  /\ Len(statuses) >= 2
  /\ settings.stockfish_path = Some("")
  /\ os_getenv(STOCKFISH_PATH) = Some("/usr/games/stockfish")
  /\ statuses[2] = [ready |-> FALSE, path |-> Some("")]

\* C5 (as amended): the ready flag is derived from the presence of a
\* non-empty path string, not from a handshake: the program starts no
\* subprocess, every status returned for a non-empty path has ready = true
\* whether or not an engine binary runs at that path, and ready = false only
\* for an unset or empty path.
C5_ReadyIgnoresHandshake ==
  /\ spawned = {}
  /\ \A i \in 1..Len(statuses) :
       /\ NonEmptyPath(statuses[i].path) => statuses[i].ready
       /\ ~statuses[i].ready => ~NonEmptyPath(statuses[i].path)

\* C5 witness: a status with ready = true has been returned for a path at
\* which no engine binary runs, and nothing was spawned.
C5_Witness ==
  /\ spawned = {}
  /\ \E i \in 1..Len(statuses) :
       /\ statuses[i].ready
       /\ statuses[i].path[1] \notin binaries

\* C5 (as stated): ready is true only if a spawn of the configured binary and
\* its handshake have succeeded.
C5_ReadyOnlyAfterHandshake ==
  \A i \in 1..Len(statuses) :
    statuses[i].ready =>
      /\ statuses[i].path[1] \in spawned
      /\ statuses[i].path[1] \in binaries
====
